---- MODULE Spec2Model ----
(***************************************************************************)
(* Model of nuitka/PostProcessing.py: the post-processing pipeline that    *)
(* attaches Windows resources (manifest, version info, icons, splash       *)
(* screen, constants blob) to a freshly built binary, patches the load     *)
(* paths on macOS, fixes permissions of modules and writes the wrapper     *)
(* script for uninstalled Pythons.                                          *)
(*                                                                         *)
(* The target binary is modelled by the log of the resource writes made   *)
(* to it ("writes"), every entry a (kind, name, lang, data) record; the    *)
(* local variables of _addWindowsIconFromIcons are state variables, and    *)
(* "pc" is the position of the single sequential control flow.             *)
(***************************************************************************)
EXTENDS Integers, Sequences, FiniteSets, TLC

\* ------------------------------------------------------------------ bounds

\* Longest list of icon specifications Options.getIconPaths() returns.
MaxSources == 2
\* Largest number of directory entries of an ICO container.
MaxCount == 3
\* Largest number of icon resources the template executable holds.
MaxTemplate == 2

\* icon_index = None, template_exe = None
NoIndex == -1
NoTemplate == -1

Min(a, b) == IF a < b THEN a ELSE b
Max(a, b) == IF a > b THEN a ELSE b

\* --------------------------------------------------- ctypes structures

\* A structure is its _fields_, each <<name, size in bytes>>, and its _pack_
\* (0: none given, every field aligned to its own size).
IconDirectoryHeader ==
    [fields |-> << <<"reserved", 2>>, <<"type", 2>>, <<"count", 2>> >>,
     pack |-> 0]

IconDirectoryEntry ==
    [fields |-> << <<"width", 1>>, <<"height", 1>>, <<"colors", 1>>,
                   <<"reserved", 1>>, <<"planes", 2>>, <<"bit_count", 2>>,
                   <<"image_size", 4>>, <<"image_offset", 4>> >>,
     pack |-> 0]

\* The same structure with the _pack_ line left out.
IconGroupDirectoryEntryUnpacked ==
    [fields |-> << <<"width", 1>>, <<"height", 1>>, <<"colors", 1>>,
                   <<"reserved", 1>>, <<"planes", 2>>, <<"bit_count", 2>>,
                   <<"image_size", 4>>, <<"id", 2>> >>,
     pack |-> 0]

IconGroupDirectoryEntry ==
    [fields |-> << <<"width", 1>>, <<"height", 1>>, <<"colors", 1>>,
                   <<"reserved", 1>>, <<"planes", 2>>, <<"bit_count", 2>>,
                   <<"image_size", 4>>, <<"id", 2>> >>,
     pack |-> 2]

\* ctypes layout: a field is aligned to its size, capped by _pack_.
FieldAlign(struct, i) ==
    LET size == struct.fields[i][2]
    IN  IF struct.pack > 0 /\ struct.pack < size THEN struct.pack ELSE size

AlignUp(offset, align) == ((offset + align - 1) \div align) * align

RECURSIVE FieldOffset(_, _)
FieldOffset(struct, i) ==
    IF i = 1 THEN 0
    ELSE AlignUp(FieldOffset(struct, i - 1) + struct.fields[i - 1][2],
                 FieldAlign(struct, i))

RECURSIVE StructAlign(_, _)
StructAlign(struct, i) ==
    IF i = 0 THEN 1
    ELSE Max(FieldAlign(struct, i), StructAlign(struct, i - 1))

\* ctypes.sizeof
Sizeof(struct) ==
    LET n == Len(struct.fields)
    IN  AlignUp(FieldOffset(struct, n) + struct.fields[n][2],
                StructAlign(struct, n))

FieldIndex(struct, name) ==
    CHOOSE i \in 1..Len(struct.fields) : struct.fields[i][1] = name

RECURSIVE Pow256(_)
Pow256(n) == IF n = 0 THEN 1 ELSE 256 * Pow256(n - 1)

\* The memory image of a structure: every field little-endian (two's
\* complement) at its offset, cut to its width, padding bytes zero.  values
\* is a record with one integer per field name.
convertStructureToBytes(struct, values) ==
    [p \in 1..Sizeof(struct) |->
        LET at == {i \in 1..Len(struct.fields) :
                      /\ FieldOffset(struct, i) <= p - 1
                      /\ p - 1 < FieldOffset(struct, i) + struct.fields[i][2]}
        IN  IF at = {} THEN 0
            ELSE LET i == CHOOSE j \in at : TRUE
                     value == values[struct.fields[i][1]]
                 IN  (value \div Pow256(p - 1 - FieldOffset(struct, i))) % 256]

\* ------------------------------------------------------------ ICO files

\* Bytes of the k-th image of a container (16x16 at 4 bit, 16x16 at 32 bit,
\* then larger ones).
ImageSize(k) == IF k = 1 THEN 296 ELSE 1128 + (k - 2) * 3136

RECURSIVE ImagesBefore(_)
ImagesBefore(k) == IF k <= 1 THEN 0 ELSE ImagesBefore(k - 1) + ImageSize(k - 1)

DirectoryEnd(count) == Sizeof(IconDirectoryHeader) + count * Sizeof(IconDirectoryEntry)

\* Length of a complete container with count images.
FullLength(count) == DirectoryEnd(count) + ImagesBefore(count + 1)

\* The k-th directory entry as stored in a container with count entries.
StoredEntry(count, k) ==
    [width |-> 16 * k, height |-> 16 * k, colors |-> 0, reserved |-> 0,
     planes |-> 1, bit_count |-> IF k = 1 THEN 4 ELSE 32,
     image_size |-> ImageSize(k),
     image_offset |-> DirectoryEnd(count) + ImagesBefore(k)]

\* A file on disk: the header's type and count fields and the number of bytes
\* the file really has.
GoodFiles == {[type |-> 1, count |-> n, length |-> FullLength(n)] : n \in 0..MaxCount}
BadTypeFiles == {[type |-> 2, count |-> 1, length |-> FullLength(1)]}
TruncatedFiles ==
    {[type |-> 1, count |-> 2, length |-> l] :
        l \in {3, DirectoryEnd(1) + 4, FullLength(2) - 100}}

\* What a read past the end of the data leaves in the structure.
GarbageHeaders == {[reserved |-> 0, type |-> 0, count |-> 0],
                   [reserved |-> 0, type |-> 1, count |-> 1]}
GarbageEntries ==
    {[width |-> 0, height |-> 0, colors |-> 0, reserved |-> 0, planes |-> 0,
      bit_count |-> 0, image_size |-> s, image_offset |-> 0] : s \in {0, 40}}

\* readFromFile never looks at the number of bytes read() returned: with a
\* short chunk memmove copies from beyond it, so the structure holds whatever
\* was there.
HeaderReadable(file) == file.length >= Sizeof(IconDirectoryHeader)
EntryReadable(file, k) == file.length >= DirectoryEnd(k)

\* The outcomes of reading the header and header.count entries.
ParseOutcomes(file) ==
    IF HeaderReadable(file)
    THEN {[header |-> [reserved |-> 0, type |-> file.type, count |-> file.count],
           icons |-> [k \in 1..file.count |->
                        IF EntryReadable(file, k) THEN StoredEntry(file.count, k)
                        ELSE g]] : g \in GarbageEntries}
    ELSE {[header |-> h, icons |-> [k \in 1..h.count |-> g]] :
            h \in GarbageHeaders, g \in GarbageEntries}

\* icon_file.seek(image_offset); icon_file.read(image_size): the bytes read
\* are named by <<source, offset, length>>.
ReadLength(file, entry) ==
    LET rest == Max(0, file.length - entry.image_offset)
    IN  IF entry.image_size < 0 THEN rest ELSE Min(entry.image_size, rest)

ReadImage(source, file, entry) ==
    <<source, entry.image_offset, ReadLength(file, entry)>>

\* ------------------------------------------------------- icon specifications

\* An icon specification after lines 113-120: whether the path ends in ".ico",
\* the index after "#" (NoIndex without one), the file at the path (for another
\* format: the container imageio writes for it) and whether imageio can read
\* the file.
IcoSpec(file, index) ==
    [ico |-> TRUE, index |-> index, file |-> file, decodable |-> TRUE]

ImageSpec(index, decodable) ==
    [ico |-> FALSE, index |-> index, decodable |-> decodable,
     file |-> [type |-> 1, count |-> 1, length |-> FullLength(1)]]

\* The specifications _addWindowsIconFromIcons is run with: every file as a
\* whole, every index into the largest container up to one past its count,
\* and files in another format.
IconSpecs ==
    {IcoSpec(f, NoIndex) : f \in GoodFiles \cup BadTypeFiles \cup TruncatedFiles}
    \cup {IcoSpec([type |-> 1, count |-> MaxCount, length |-> FullLength(MaxCount)], i) :
            i \in 0..(MaxCount + 1)}
    \cup {ImageSpec(NoIndex, TRUE), ImageSpec(NoIndex, FALSE), ImageSpec(0, TRUE)}

\* The specifications the whole pipeline is run with: a complete container,
\* one cut off inside its directory, and an index on a file in another format.
PipelineIconSpecs ==
    {IcoSpec([type |-> 1, count |-> 2, length |-> FullLength(2)], NoIndex),
     IcoSpec([type |-> 1, count |-> 2, length |-> DirectoryEnd(1) + 4], NoIndex),
     ImageSpec(0, TRUE)}

ListsOf(S) == UNION {[1..n -> S] : n \in 0..MaxSources}

\* -------------------------------------------------------------------- state

VARIABLES
    \* configuration and environment, read only
    platform,           \* getOS(): "Windows", "Darwin" or "Linux"
    shallMakeModule,    \* Options.shallMakeModule()
    outputExists,       \* os.path.exists(result_filename)
    staticLibPython,    \* Options.shallUseStaticLibPython()
    uninstalledPython,  \* Options.shallTreatUninstalledPython()
    importLibExists,    \* os.path.exists(candidate), the "lib<name>.a" file
    template_exe,       \* resources of Options.getWindowsIconExecutablePath(), or NoTemplate
    splash,             \* Options.getWindowsSplashScreen() is not None
    iconPaths,          \* Options.getIconPaths()
    onefile,            \* the onefile argument of the call in progress
    \* control
    pc,                 \* position of the control flow
    fatal,              \* the sysexit (or crash) that ended the run, "" if none
    warnings,           \* warnings logged
    \* effects
    writes,             \* resource writes made to the target binary, in order
    converted,          \* converted icon files written: <<source, number in the name>>
    installNameCalls,   \* calls of callInstallNameTool
    execBitRemoved,     \* removeFileExecutablePermission was called
    importLibRemoved,   \* os.unlink(candidate) was called
    wrapperWritten,     \* putTextFileContents(cmd_filename, ...) was called
    \* locals of _addWindowsIconFromIcons
    icon_group, image_id, images, done, header, icons, parts, written,
    imageio             \* "untried" until the first import of imageio, then "loaded"

options == <<platform, shallMakeModule, outputExists, staticLibPython,
             uninstalledPython, importLibExists, template_exe, splash, iconPaths>>
config == <<options, onefile>>
control == <<pc, fatal, warnings>>
effects == <<writes, converted, installNameCalls, execBitRemoved,
             importLibRemoved, wrapperWritten>>
locals == <<icon_group, image_id, images, done, header, icons, parts, written, imageio>>
vars == <<config, control, effects, locals>>

\* ------------------------------------------------------ resource writer

\* addResourceToFile: one more resource written to the target.
addResourceToFile(log, kind, name, lang, data) ==
    Append(log, [kind |-> kind, name |-> name, lang |-> lang, data |-> data])

\* The n icon resources copyResourcesFromFileToFile finds in the template:
\* a group icon and the images it names.
TemplateResources(n) ==
    [k \in 1..n |->
        [kind |-> IF k = 1 THEN "RT_GROUP_ICON" ELSE "RT_ICON",
         name |-> IF k = 1 THEN 1 ELSE k - 1, lang |-> 0, data |-> <<>>]]

RECURSIVE Flatten(_)
Flatten(seqs) == IF seqs = <<>> THEN <<>> ELSE Head(seqs) \o Flatten(Tail(seqs))

\* ------------------------------------------------------------ step order

\* The statements of executePostProcessingResources with manifest and version
\* info after the icons.
ResourceStepsIconsFirst == <<"template", "manifest", "version", "splash">>

\* The statements of executePostProcessingResources, in their order.
ResourceSteps == <<"manifest", "version", "template", "splash">>

\* The position after a statement of executePostProcessingResources; after the
\* last one the function returns to line 332.
StepAfter(step) ==
    LET i == CHOOSE j \in 1..Len(ResourceSteps) : ResourceSteps[j] = step
    IN  IF i < Len(ResourceSteps) THEN ResourceSteps[i + 1] ELSE "blob"

OutputCheckSkipped(exists) == FALSE

\* Line 315.
OutputMissing(exists) == ~exists

\* The error is logged and the run goes on.
SysexitReturns(reason) == pc' = "icon_images" /\ fatal' = reason

\* postprocessing_logger.sysexit: the run ends where it is.
Sysexit(reason) == pc' = "aborted" /\ fatal' = reason

\* ------------------------------------------------------------ initial state

InitRun ==
    /\ onefile = FALSE
    /\ fatal = "" /\ warnings = <<>>
    /\ writes = <<>> /\ converted = <<>> /\ installNameCalls = 0
    /\ execBitRemoved = FALSE /\ importLibRemoved = FALSE /\ wrapperWritten = FALSE
    /\ icon_group = 0 /\ image_id = 0 /\ images = <<>> /\ done = 0
    /\ header = [reserved |-> 0, type |-> 0, count |-> 0]
    /\ icons = <<>> /\ parts = <<>> /\ written = 0 /\ imageio = "untried"

\* A call of executePostProcessing, in any configuration.
Init ==
    /\ platform \in {"Windows", "Darwin", "Linux"}
    /\ shallMakeModule \in BOOLEAN
    /\ outputExists \in BOOLEAN
    /\ staticLibPython \in BOOLEAN
    /\ uninstalledPython \in BOOLEAN
    /\ importLibExists \in BOOLEAN
    /\ template_exe \in {NoTemplate, 0, MaxTemplate}
    /\ splash \in BOOLEAN
    /\ iconPaths \in ListsOf(PipelineIconSpecs)
    /\ pc = "start"
    /\ InitRun

\* A call of _addWindowsIconFromIcons on its own, with any list of icon
\* specifications.
InitIcons ==
    /\ platform = "Windows"
    /\ shallMakeModule = FALSE
    /\ outputExists = TRUE
    /\ staticLibPython = FALSE
    /\ uninstalledPython = FALSE
    /\ importLibExists = FALSE
    /\ template_exe = NoTemplate
    /\ splash = FALSE
    /\ iconPaths \in ListsOf(IconSpecs)
    /\ pc = "add_icons"
    /\ InitRun

\* ------------------------------------------------- executePostProcessing

\* The resources are attached to modules too.
AfterOutputCheckModuleToo ==
    IF platform = "Windows" THEN ResourceSteps[1] ELSE "install_name"

\* Lines 320-321 and 346: where the run continues after the check of line 315.
AfterOutputCheck ==
    IF platform = "Windows"
    THEN IF ~shallMakeModule THEN ResourceSteps[1] ELSE "blob"
    ELSE "install_name"

\* Lines 313-321.
CheckOutput ==
    /\ pc = "start"
    /\ IF OutputMissing(outputExists)
       THEN Sysexit("output missing")
       ELSE pc' = AfterOutputCheck /\ fatal' = fatal
    /\ UNCHANGED <<config, warnings, effects, locals>>

\* ---------------------------------------- executePostProcessingResources

Bit(b) == IF b THEN 1 ELSE 0

\* Lines 239-253; python2 is python_version < 0x300 (line 322), which makes
\* the caller pass the manifest of the Python binary.
ManifestStep ==
    /\ pc = "manifest"
    /\ \E python2 \in BOOLEAN, admin \in BOOLEAN, uiAccess \in BOOLEAN :
         writes' = IF python2 \/ admin \/ uiAccess
                   THEN addResourceToFile(writes, "RT_MANIFEST", 1, 0,
                                          <<Bit(admin), Bit(uiAccess)>>)
                   ELSE writes
    /\ pc' = StepAfter("manifest")
    /\ UNCHANGED <<config, fatal, warnings, converted, installNameCalls,
                   execBitRemoved, importLibRemoved, wrapperWritten, locals>>

\* Lines 255-270.
VersionInfoStep ==
    /\ pc = "version"
    /\ \E configured \in BOOLEAN :
         writes' = IF configured
                   THEN addResourceToFile(writes, "RT_VERSION", 1, 0,
                                          <<Bit(~shallMakeModule)>>)
                   ELSE writes
    /\ pc' = StepAfter("version")
    /\ UNCHANGED <<config, fatal, warnings, converted, installNameCalls,
                   execBitRemoved, importLibRemoved, wrapperWritten, locals>>

\* A template without icon resources ends the run.
TemplateReportStrict(res_copied) ==
    IF res_copied = 0
    THEN [level |-> "sysexit", text |-> "nothing to copy"]
    ELSE [level |-> "warning", text |-> "copied"]

\* Lines 281-289: what is reported after the copy.
TemplateReport(res_copied) ==
    IF res_copied = 0
    THEN [level |-> "warning", text |-> "nothing to copy"]
    ELSE [level |-> "warning", text |-> "copied"]

\* The template is not looked at.
ShallCopyFromTemplateNever == FALSE

\* Line 274.
ShallCopyFromTemplate == template_exe # NoTemplate

\* Lines 273-291: copy the icons of the template, or build them.
TemplateStep ==
    /\ pc = "template"
    /\ IF ShallCopyFromTemplate
       THEN LET copied == TemplateResources(template_exe)
                report == TemplateReport(Len(copied))
            IN  /\ writes' = writes \o copied
                /\ IF report.level = "sysexit"
                   THEN Sysexit(report.text) /\ warnings' = warnings
                   ELSE /\ warnings' = Append(warnings, report.text)
                        /\ pc' = StepAfter("template")
                        /\ fatal' = fatal
       ELSE /\ pc' = "add_icons"
            /\ UNCHANGED <<writes, warnings, fatal>>
    /\ UNCHANGED <<config, converted, installNameCalls, execBitRemoved,
                   importLibRemoved, wrapperWritten, locals>>

\* Lines 293-304.
SplashStep ==
    /\ pc = "splash"
    /\ writes' = IF splash
                 THEN addResourceToFile(writes, "RT_RCDATA", 27, 0, <<>>)
                 ELSE writes
    /\ pc' = StepAfter("splash")
    /\ UNCHANGED <<config, fatal, warnings, converted, installNameCalls,
                   execBitRemoved, importLibRemoved, wrapperWritten, locals>>

\* ---------------------------------------------- _addWindowsIconFromIcons

\* A counter of the module, set once and carried from call to call.
CarriedImageId(previous) == IF previous = 0 THEN 1 ELSE previous

\* Line 107: image_id is a local of the call; previous is what an earlier
\* call left (0: none).
FirstImageId(previous) == 1

\* Lines 106-110.
EnterAddIcons ==
    /\ pc = "add_icons"
    /\ icon_group' = 1 /\ image_id' = FirstImageId(image_id) /\ images' = <<>>
    /\ done' = 0 /\ written' = 0
    /\ pc' = "icon_loop"
    /\ UNCHANGED <<config, fatal, warnings, effects, header, icons, parts, imageio>>

\* The index is not looked at.
HasIndexConflictIgnored(spec) == FALSE

\* Lines 122 and 125: an index given for a file that is not an ICO file.
HasIndexConflict(spec) == ~spec.ico /\ spec.index # NoIndex

\* Lines 112-160: the next icon specification; a file in another format is
\* converted.  done is the number of specifications the loop has finished.
IconSpecStep ==
    /\ pc = "icon_loop" /\ done < Len(iconPaths)
    /\ LET spec == iconPaths[done + 1]
       IN  IF spec.ico
           THEN pc' = "icon_read" /\ UNCHANGED <<fatal, converted, imageio>>
           ELSE IF HasIndexConflict(spec)
           THEN Sysexit("index with non-ico") /\ UNCHANGED <<converted, imageio>>
           ELSE \E installed \in IF imageio = "loaded" THEN {TRUE} ELSE BOOLEAN :
                  IF ~installed
                  THEN Sysexit("imageio missing") /\ UNCHANGED <<converted, imageio>>
                  ELSE IF ~spec.decodable
                  THEN /\ Sysexit("unsupported format")
                       /\ imageio' = "loaded" /\ converted' = converted
                  ELSE /\ converted' = Append(converted, <<done + 1, image_id>>)
                       /\ imageio' = "loaded"
                       /\ pc' = "icon_read" /\ fatal' = fatal
    /\ UNCHANGED <<config, warnings, writes, installNameCalls, execBitRemoved,
                   importLibRemoved, wrapperWritten, icon_group, image_id,
                   images, done, header, icons, parts, written>>

\* Line 171.
IndexOutOfRange(icon_index, count) == icon_index > count

\* icons[icon_index:], the end of the slice forgotten.
SelectIconsToEnd(all, icon_index) ==
    IF icon_index = NoIndex THEN all
    ELSE SubSeq(all, icon_index + 1, Len(all))

\* Line 177: icons[icon_index : icon_index + 1], or all of them without index.
SelectIcons(all, icon_index) ==
    IF icon_index = NoIndex THEN all
    ELSE SubSeq(all, icon_index + 1, Min(icon_index + 1, Len(all)))

\* The counter is not advanced.
SameImageId(id) == id

\* The counter is advanced twice.
SkipImageId(id) == id + 2

\* Line 206.
NextImageId(id) == id + 1

\* Lines 193-202.
GroupEntryValues(icon, id) ==
    [width |-> icon.width, height |-> icon.height, colors |-> icon.colors,
     reserved |-> icon.reserved, planes |-> icon.planes,
     bit_count |-> icon.bit_count, image_size |-> icon.image_size, id |-> id]

\* Lines 190-206: one part for every selected icon, the counter advanced
\* after each.
RECURSIVE GroupParts(_, _)
GroupParts(selected, id) ==
    IF selected = <<>> THEN <<>>
    ELSE <<convertStructureToBytes(IconGroupDirectoryEntry,
                                   GroupEntryValues(Head(selected), id))>>
         \o GroupParts(Tail(selected), NextImageId(id))

RECURSIVE ImageIdAfter(_, _)
ImageIdAfter(n, id) == IF n = 0 THEN id ELSE ImageIdAfter(n - 1, NextImageId(id))

\* Lines 162-215: read the container, apply the index, collect the images,
\* build and write the group icon.
IconReadStep ==
    /\ pc = "icon_read"
    /\ LET spec == iconPaths[done + 1]
       IN  \E parsed \in ParseOutcomes(spec.file) :
             IF spec.index # NoIndex
                /\ IndexOutOfRange(spec.index, Len(parsed.icons))
             THEN /\ Sysexit("index out of range")
                  /\ header' = parsed.header /\ icons' = parsed.icons
                  /\ UNCHANGED <<writes, image_id, images, done, parts>>
             ELSE LET selected == SelectIcons(parsed.icons, spec.index)
                      newParts ==
                          <<convertStructureToBytes(IconDirectoryHeader, parsed.header)>>
                          \o GroupParts(selected, image_id)
                  IN  /\ header' = parsed.header
                      /\ icons' = selected
                      /\ images' = images \o
                            [k \in 1..Len(selected) |->
                                ReadImage(done + 1, spec.file, selected[k])]
                      /\ parts' = newParts
                      /\ image_id' = ImageIdAfter(Len(selected), image_id)
                      /\ writes' = addResourceToFile(writes, "RT_GROUP_ICON",
                                                     icon_group, 0, Flatten(newParts))
                      /\ done' = done + 1
                      /\ pc' = "icon_loop" /\ fatal' = fatal
    /\ UNCHANGED <<config, warnings, converted, installNameCalls, execBitRemoved,
                   importLibRemoved, wrapperWritten, icon_group, written, imageio>>

\* Lines 97-99: the copy from beyond a short chunk may also end the process.
IconReadCrash ==
    /\ pc = "icon_read"
    /\ LET file == iconPaths[done + 1].file
       IN  ~HeaderReadable(file) \/ ~EntryReadable(file, file.count)
    /\ pc' = "aborted" /\ fatal' = "crash"
    /\ UNCHANGED <<config, warnings, effects, locals>>

\* Line 112: the list is exhausted.
IconLoopEnd ==
    /\ pc = "icon_loop" /\ done = Len(iconPaths)
    /\ pc' = "icon_images"
    /\ UNCHANGED <<config, fatal, warnings, effects, locals>>

\* enumerate(images, 0)
IconResNameFromZero(position) == position - 1

\* Line 217: enumerate(images, 1).
IconResName(position) == position

\* Lines 217-225, one image.
WriteIconImage ==
    /\ pc = "icon_images" /\ written < Len(images)
    /\ writes' = addResourceToFile(writes, "RT_ICON", IconResName(written + 1), 0,
                                   images[written + 1])
    /\ written' = written + 1
    /\ UNCHANGED <<config, control, converted, installNameCalls, execBitRemoved,
                   importLibRemoved, wrapperWritten, icon_group, image_id,
                   images, done, header, icons, parts, imageio>>

\* Line 217, the loop ends: return to line 293.
IconsReturn ==
    /\ pc = "icon_images" /\ written = Len(images)
    /\ pc' = StepAfter("template")
    /\ UNCHANGED <<config, fatal, warnings, effects, locals>>

\* --------------------------------------- executePostProcessing, the rest

\* Lines 332-342.
BlobStep ==
    /\ pc = "blob"
    /\ writes' = addResourceToFile(writes, "RT_RCDATA", 3, 0, <<>>)
    /\ pc' = "install_name"
    /\ UNCHANGED <<config, fatal, warnings, converted, installNameCalls,
                   execBitRemoved, importLibRemoved, wrapperWritten, locals>>

\* The static libpython is not looked at.
ShallPatchLoadPathsAnyLinkage == platform = "Darwin" /\ ~shallMakeModule

\* Lines 346-350.
ShallPatchLoadPaths ==
    platform = "Darwin" /\ ~shallMakeModule /\ ~staticLibPython

\* Lines 346-371.
InstallNameStep ==
    /\ pc = "install_name"
    /\ installNameCalls' = IF ShallPatchLoadPaths THEN installNameCalls + 1
                           ELSE installNameCalls
    /\ pc' = "permissions"
    /\ UNCHANGED <<config, fatal, warnings, writes, converted, execBitRemoved,
                   importLibRemoved, wrapperWritten, locals>>

\* The platform is not looked at.
ShallRemoveExecBitAnyPlatform == shallMakeModule

\* Line 375.
ShallRemoveExecBit == platform # "Windows" /\ shallMakeModule

\* Lines 375-376.
PermissionStep ==
    /\ pc = "permissions"
    /\ execBitRemoved' = IF ShallRemoveExecBit THEN TRUE ELSE execBitRemoved
    /\ pc' = "import_lib"
    /\ UNCHANGED <<config, fatal, warnings, writes, converted, installNameCalls,
                   importLibRemoved, wrapperWritten, locals>>

\* Lines 378 and 384.
ShallRemoveImportLib ==
    platform = "Windows" /\ shallMakeModule /\ importLibExists

\* Lines 378-385.
ImportLibStep ==
    /\ pc = "import_lib"
    /\ importLibRemoved' = IF ShallRemoveImportLib THEN TRUE ELSE importLibRemoved
    /\ pc' = "wrapper"
    /\ UNCHANGED <<config, fatal, warnings, writes, converted, installNameCalls,
                   execBitRemoved, wrapperWritten, locals>>

\* The platform is not looked at.
ShallWriteWrapperAnyPlatform == uninstalledPython

\* Line 387.
ShallWriteWrapper == platform = "Windows" /\ uninstalledPython

\* Lines 387-402.
WrapperStep ==
    /\ pc = "wrapper"
    /\ wrapperWritten' = IF ShallWriteWrapper THEN TRUE ELSE wrapperWritten
    /\ pc' = "done"
    /\ UNCHANGED <<config, fatal, warnings, writes, converted, installNameCalls,
                   execBitRemoved, importLibRemoved, locals>>

\* Lines 231-236, "used for both onefile and not onefile binary, potentially
\* two times": after the call for the standard binary has returned,
\* _addWindowsIconFromIcons is called with onefile=True in the same process.
\* Its result_filename (line 110) is the onefile binary, to which nothing has
\* been written yet.
OnefileCall ==
    /\ pc = "splash" /\ ~onefile
    /\ onefile' = TRUE
    /\ writes' = <<>>
    /\ pc' = "add_icons"
    /\ UNCHANGED <<options, fatal, warnings, converted, installNameCalls,
                   execBitRemoved, importLibRemoved, wrapperWritten, locals>>

\* ------------------------------------------------------- specifications

NextIcons ==
    \/ EnterAddIcons
    \/ IconSpecStep
    \/ IconReadStep
    \/ IconReadCrash
    \/ IconLoopEnd
    \/ WriteIconImage
    \/ IconsReturn

Next ==
    \/ CheckOutput
    \/ ManifestStep
    \/ VersionInfoStep
    \/ TemplateStep
    \/ EnterAddIcons
    \/ IconSpecStep
    \/ IconReadStep
    \/ IconReadCrash
    \/ IconLoopEnd
    \/ WriteIconImage
    \/ IconsReturn
    \/ SplashStep
    \/ BlobStep
    \/ InstallNameStep
    \/ PermissionStep
    \/ ImportLibStep
    \/ WrapperStep

\* executePostProcessing, every configuration.
Spec == Init /\ [][Next]_vars

\* _addWindowsIconFromIcons, every list of icon specifications.
SpecIcons == InitIcons /\ [][NextIcons]_vars

\* The specifications the two calls in one process are run with: every
\* complete container as a whole and one cut off inside its directory.
OnefileIconSpecs ==
    {IcoSpec(f, NoIndex) : f \in GoodFiles}
    \cup {IcoSpec([type |-> 1, count |-> 2, length |-> DirectoryEnd(1) + 4], NoIndex)}

InitOnefile ==
    /\ platform = "Windows"
    /\ shallMakeModule = FALSE
    /\ outputExists = TRUE
    /\ staticLibPython = FALSE
    /\ uninstalledPython = FALSE
    /\ importLibExists = FALSE
    /\ template_exe = NoTemplate
    /\ splash = FALSE
    /\ iconPaths \in ListsOf(OnefileIconSpecs)
    /\ pc = "add_icons"
    /\ InitRun

NextOnefile == NextIcons \/ OnefileCall

\* _addWindowsIconFromIcons for the standard and then for the onefile binary.
SpecOnefile == InitOnefile /\ [][NextOnefile]_vars

\* ------------------------------------------------ reading the target back

KindWrites(kind) == SelectSeq(writes, LAMBDA w : w.kind = kind)

GroupWrites == KindWrites("RT_GROUP_ICON")
IconWrites == KindWrites("RT_ICON")

\* A little-endian unsigned number of size bytes after the first start bytes.
RECURSIVE LittleEndian(_, _, _)
LittleEndian(data, start, size) ==
    IF size = 0 THEN 0
    ELSE data[start + 1] + 256 * LittleEndian(data, start + 1, size - 1)

\* The directory entries of a group icon payload, and a field of each.
GroupEntryCount(data) ==
    (Len(data) - Sizeof(IconDirectoryHeader)) \div Sizeof(IconGroupDirectoryEntry)

GroupField(data, k, name) ==
    LET i == FieldIndex(IconGroupDirectoryEntry, name)
    IN  LittleEndian(data,
                     Sizeof(IconDirectoryHeader)
                       + (k - 1) * Sizeof(IconGroupDirectoryEntry)
                       + FieldOffset(IconGroupDirectoryEntry, i),
                     IconGroupDirectoryEntry.fields[i][2])

GroupIds(data) == [k \in 1..GroupEntryCount(data) |-> GroupField(data, k, "id")]

\* The ids of all group icons written, in the order of the writes.
AllGroupIds == Flatten([g \in 1..Len(GroupWrites) |-> GroupIds(GroupWrites[g].data)])

SameTriple(v, w) == v.kind = w.kind /\ v.name = w.name /\ v.lang = w.lang

\* ------------------------------------------------------------------ claims

\* C1: within one call of _addWindowsIconFromIcons the ids in the group icon
\* directory entries, read in the order of the writes, are 1, 2, 3, ...: they
\* start at 1, increase by one from entry to entry and go on across sources.
C1_IdsRunAcrossSources ==
    \A j \in 1..Len(AllGroupIds) : AllGroupIds[j] = j

\* C1 witness: two sources of 2 and 3 entries got the ids 1,2 and 3,4,5.
C1_Witness ==
    /\ Len(GroupWrites) = 2
    /\ GroupIds(GroupWrites[1].data) = <<1, 2>>
    /\ GroupIds(GroupWrites[2].data) = <<3, 4, 5>>

\* C2 (as claimed): an index i >= n into a complete ICO container of n entries
\* ends the run before the group icon of that source is written.
C2_IndexFromCountIsFatal ==
    \A k \in 1..Len(iconPaths) :
        ( /\ iconPaths[k].ico
          /\ iconPaths[k].file \in GoodFiles
          /\ iconPaths[k].index # NoIndex
          /\ iconPaths[k].index >= iconPaths[k].file.count )
        => (done < k /\ Len(GroupWrites) < k)

\* C3 (as claimed): no two writes of one run go to the same (kind, name, lang),
\* the manifest and the version info apart.
C3_UniqueTriples ==
    \A i \in 1..Len(writes), j \in 1..Len(writes) :
        (i # j /\ SameTriple(writes[i], writes[j]))
        => writes[i].kind \in {"RT_MANIFEST", "RT_VERSION"}

\* The place of a write in the order manifest, version info, icons and splash
\* screen, constants blob.
WriteRank(w) ==
    IF w.kind = "RT_MANIFEST" THEN 1
    ELSE IF w.kind = "RT_VERSION" THEN 2
    ELSE IF w.kind = "RT_RCDATA" /\ w.name = 3 THEN 4
    ELSE 3

\* C4: the writes to the target come in the order manifest, version info, icon
\* resources (and splash screen), constants blob: none of an earlier rank
\* follows one of a later rank, and a finished non-module Windows run has
\* written the blob, last.
C4_WriteOrder ==
    /\ \A i \in 1..Len(writes), j \in 1..Len(writes) :
          i < j => WriteRank(writes[i]) <= WriteRank(writes[j])
    /\ (pc = "done" /\ platform = "Windows" /\ ~shallMakeModule)
          => (writes # <<>> /\ WriteRank(writes[Len(writes)]) = 4)

\* C4 witness: a finished run that wrote manifest, version info, group icon,
\* icon, splash screen and blob.
C4_Witness ==
    /\ pc = "done"
    /\ \A kind \in {"RT_MANIFEST", "RT_VERSION", "RT_GROUP_ICON", "RT_ICON"} :
          KindWrites(kind) # <<>>
    /\ Len(KindWrites("RT_RCDATA")) = 2

\* C5: a run whose output file is missing ends in the fatal error of the first
\* check and has no effect at all.
C5_MissingOutputNoEffect ==
    ~outputExists =>
        /\ writes = <<>> /\ converted = <<>> /\ installNameCalls = 0
        /\ ~execBitRemoved /\ ~importLibRemoved /\ ~wrapperWritten
        /\ pc \in {"start", "aborted"}
        /\ (pc = "aborted" => fatal = "output missing")

\* C5 witness: the run was ended by the check.
C5_Witness == ~outputExists /\ pc = "aborted" /\ fatal = "output missing"

\* C6 (as claimed): no group icon is written for an ICO source whose header
\* type is not 1 or whose file is shorter than its directory and images.
C6_MalformedIsFatal ==
    \A k \in 1..Len(iconPaths) :
        ( /\ iconPaths[k].ico
          /\ \/ iconPaths[k].file.type # 1
             \/ iconPaths[k].file.length < FullLength(iconPaths[k].file.count) )
        => (done < k /\ Len(GroupWrites) < k)

\* C7 (as claimed): a serialized group icon directory entry is 12 bytes long.
C7_EntryIs12Bytes ==
    \A i \in 2..Len(parts) : Len(parts[i]) = 12

\* C7 (amended): a serialized group icon directory entry is 14 bytes long, the
\* sum of its field widths.
C7_EntryIs14Bytes ==
    \A i \in 2..Len(parts) : Len(parts[i]) = 14

\* C7 witness: a group icon of two entries was serialized.
C7_Witness == Len(parts) = 3 /\ pc = "icon_loop"

\* The source of the end-to-end scenario.
TwoImageIco == IcoSpec([type |-> 1, count |-> 2, length |-> FullLength(2)], NoIndex)

\* C8: for the one source {type=1, count=2} with images of 296 and 1128 bytes
\* the call writes one group icon, the header followed by two entries with
\* the ids 1 and 2, and then the two images as icons 1 and 2.
C8_EndToEnd ==
    (iconPaths = <<TwoImageIco>> /\ pc = "splash" /\ template_exe = NoTemplate) =>
        /\ Len(GroupWrites) = 1 /\ Len(IconWrites) = 2
        /\ LET data == GroupWrites[1].data
           IN  /\ SubSeq(data, 1, 6) = <<0, 0, 1, 0, 2, 0>>
               /\ GroupEntryCount(data) = 2
               /\ Len(data) = Sizeof(IconDirectoryHeader)
                               + 2 * Sizeof(IconGroupDirectoryEntry)
               /\ GroupIds(data) = <<1, 2>>
               /\ GroupField(data, 1, "image_size") = 296
               /\ GroupField(data, 2, "image_size") = 1128
        /\ IconWrites[1].name = 1 /\ IconWrites[1].data[3] = 296
        /\ IconWrites[2].name = 2 /\ IconWrites[2].data[3] = 1128
        /\ IconWrites[1].lang = 0 /\ IconWrites[2].lang = 0
        /\ GroupWrites[1].name = 1 /\ GroupWrites[1].lang = 0

\* C8 witness: the call on that source has returned.
C8_Witness ==
    iconPaths = <<TwoImageIco>> /\ pc = "splash" /\ Len(IconWrites) = 2

\* An index on a source that is not an ICO file.
IndexedNonIco(k) == ~iconPaths[k].ico /\ iconPaths[k].index # NoIndex

\* C9 (as claimed): when the run ends on an index given for a non-ICO source,
\* nothing has been written to the target and no icon file has been converted.
C9_ConflictBeforeAnyWrite ==
    fatal = "index with non-ico" => (writes = <<>> /\ converted = <<>>)

\* C9 (amended): an index given for a non-ICO source ends the run at that
\* source before any I/O for it: the source is never converted nor read, and
\* at the abort the target holds only what the earlier steps wrote (manifest,
\* version info, one group icon for each earlier source).
C9_ConflictFailsAtItsSource ==
    /\ \A k \in 1..Len(iconPaths) :
          IndexedNonIco(k) =>
              /\ done < k
              /\ \A c \in 1..Len(converted) : converted[c][1] < k
              /\ (done = k - 1 => pc # "icon_read")
    /\ fatal = "index with non-ico" =>
          /\ IndexedNonIco(done + 1)
          /\ Len(GroupWrites) = done
          /\ \A i \in 1..Len(writes) :
                writes[i].kind \in {"RT_MANIFEST", "RT_VERSION", "RT_GROUP_ICON"}

\* C9 witness: the run ended on the conflict after a manifest and the group
\* icon of an earlier source were written.
C9_Witness ==
    /\ fatal = "index with non-ico" /\ pc = "aborted"
    /\ KindWrites("RT_MANIFEST") # <<>>
    /\ GroupWrites # <<>>

\* C10: a template executable without icon resources is a warning: the run
\* is not ended by it, and a finished run has logged the warning and done the
\* later steps (splash screen if configured, blob, wrapper script if due).
C10_EmptyTemplateIsWarning ==
    (template_exe = 0 /\ outputExists) =>
        /\ pc # "aborted"
        /\ (pc = "done" /\ platform = "Windows" /\ ~shallMakeModule) =>
              /\ warnings = <<"nothing to copy">>
              /\ Len(KindWrites("RT_RCDATA")) = (IF splash THEN 2 ELSE 1)
              /\ writes[Len(writes)].name = 3
              /\ wrapperWritten = uninstalledPython

\* C10 witness: a run with an empty template finished with splash screen and
\* wrapper script.
C10_Witness ==
    /\ template_exe = 0 /\ pc = "done" /\ warnings = <<"nothing to copy">>
    /\ splash /\ wrapperWritten /\ Len(KindWrites("RT_RCDATA")) = 2

\* The steps of executePostProcessing after the load path patch.
AfterInstallName == {"permissions", "import_lib", "wrapper", "done"}

\* C11: callInstallNameTool is called at most once, never before the check
\* of the output file has passed, and past its place in the run it has been
\* called exactly when the platform is Darwin, the output is no module and
\* the Python library is not linked statically.
C11_LoadPathPatchGate ==
    /\ installNameCalls \in {0, 1}
    /\ installNameCalls = 1 => (outputExists /\ pc \in AfterInstallName)
    /\ pc \in AfterInstallName =>
          (installNameCalls = 1 <=>
              (platform = "Darwin" /\ ~shallMakeModule /\ ~staticLibPython))

\* C11 witness: a finished Darwin run that patched the load paths.
C11_Witness ==
    pc = "done" /\ platform = "Darwin" /\ installNameCalls = 1

\* The icon specification k is 'path#i' on a complete ICO container of n
\* entries with 0 <= i < n.
ValidIndexed(k) ==
    /\ iconPaths[k].ico
    /\ iconPaths[k].file \in GoodFiles
    /\ iconPaths[k].index >= 0
    /\ iconPaths[k].index < iconPaths[k].file.count

\* C12: reading a source 'path#i' with 0 <= i < n selects exactly the i-th
\* (counted from 0) parsed entry, collects exactly that entry's image, its
\* image_size bytes at its image_offset, writes a group icon of that one
\* entry under the current id and advances the id counter by one.
C12_ValidIndexSelectsOne ==
    [][ (pc = "icon_read" /\ ValidIndexed(done + 1)) =>
          LET spec == iconPaths[done + 1]
              entry == StoredEntry(spec.file.count, spec.index + 1)
              data == writes'[Len(writes')].data
          IN  /\ pc' = "icon_loop" /\ done' = done + 1
              /\ icons' = <<entry>>
              /\ images' = Append(images, <<done + 1, entry.image_offset,
                                            entry.image_size>>)
              /\ image_id' = image_id + 1
              /\ Len(writes') = Len(writes) + 1
              /\ GroupEntryCount(data) = 1
              /\ GroupField(data, 1, "id") = image_id
              /\ GroupField(data, 1, "image_size") = entry.image_size
              /\ GroupField(data, 1, "width") = entry.width
      ]_vars

\* C12 witness: 'path#1' was read as the first source and its second entry
\* selected.
C12_Witness ==
    /\ pc = "icon_loop" /\ done = 1
    /\ ValidIndexed(1) /\ iconPaths[1].index = 1
    /\ icons = <<StoredEntry(iconPaths[1].file.count, 2)>>
    /\ Len(images) = 1 /\ image_id = 2

\* C13: in the call for the onefile binary, made after the call for the
\* standard binary in the same process, the ids start at 1 again: the ids
\* written to the onefile binary are 1, 2, 3, ... and the counter is one past
\* their number, whatever the first call assigned.
C13_FreshCounterPerCall ==
    (onefile /\ pc # "add_icons") =>
        /\ image_id = Len(AllGroupIds) + 1
        /\ \A j \in 1..Len(AllGroupIds) : AllGroupIds[j] = j

\* C13 witness: the second call has returned after assigning several ids.
C13_Witness ==
    onefile /\ pc = "splash" /\ Len(AllGroupIds) >= 2 /\ Len(GroupWrites) = 2

\* What a run ended inside the icon loop has done: one group icon for each
\* source before the failing one on top of manifest and version info, and
\* none of the later steps.
EndedInIconLoop ==
    /\ Len(GroupWrites) = done
    /\ \A i \in 1..Len(writes) :
          writes[i].kind \in {"RT_MANIFEST", "RT_VERSION", "RT_GROUP_ICON"}
    /\ installNameCalls = 0
    /\ ~execBitRemoved /\ ~importLibRemoved /\ ~wrapperWritten

\* C14: a fatal error ends the run at once and rolls nothing back: a run with
\* a fatal error is aborted, the step that aborts leaves the target and the
\* converted files as they were, and a run aborted while processing icon
\* source k holds manifest, version info and the group icons of the sources
\* before k, but no icon, splash screen or blob resource, and has made no
\* load path patch, permission change, file removal or wrapper script.
C14_FatalEndsRunWithoutRollback ==
    /\ [](fatal # "" => pc = "aborted")
    /\ []((pc = "aborted" /\ fatal # "output missing") => EndedInIconLoop)
    /\ [][pc' = "aborted" => (writes' = writes /\ converted' = converted)]_vars

\* C14 witness: icon source 2 was fatal after manifest, version info and the
\* group icon of source 1 were written, with splash screen and wrapper
\* script still due.
C14_Witness ==
    /\ pc = "aborted" /\ done = 1
    /\ Len(KindWrites("RT_MANIFEST")) = 1 /\ Len(KindWrites("RT_VERSION")) = 1
    /\ Len(writes) = 3
    /\ splash /\ uninstalledPython

\* The positions inside _addWindowsIconFromIcons.
InAddIcons == {"add_icons", "icon_loop", "icon_read", "icon_images"}

\* C15: the icon resources of a run have one origin.  With a template
\* executable configured they are its icon resources, copied once, and
\* _addWindowsIconFromIcons is never entered: no icon specification is read
\* or converted.  Without one nothing is copied, and every group icon and
\* icon written was built from the icon specifications.
C15_OneIconOrigin ==
    /\ template_exe # NoTemplate =>
          /\ pc \notin InAddIcons
          /\ done = 0 /\ image_id = 0 /\ images = <<>> /\ converted = <<>>
          /\ imageio = "untried"
          /\ Len(GroupWrites) + Len(IconWrites) \in {0, template_exe}
          /\ \A i \in 1..Len(writes) :
                writes[i].kind \in {"RT_GROUP_ICON", "RT_ICON"}
                    => writes[i].data = <<>>
    /\ template_exe = NoTemplate =>
          /\ warnings = <<>>
          /\ Len(GroupWrites) = done /\ Len(IconWrites) = written
          /\ \A i \in 1..Len(writes) :
                writes[i].kind \in {"RT_GROUP_ICON", "RT_ICON"}
                    => writes[i].data # <<>>

\* C15 witness: a finished run that copied the icons of the template although
\* icon specifications were given.
C15_Witness ==
    /\ pc = "done" /\ template_exe = MaxTemplate /\ iconPaths # <<>>
    /\ Len(GroupWrites) + Len(IconWrites) = MaxTemplate

\* C16: the executable permission is removed exactly for a module on a
\* platform other than Windows, the import library is removed exactly for a
\* module on Windows whose 'lib<name>.a' exists; before their place in the
\* run neither has happened, the two never both happen and neither happens
\* for a build that is no module.
C16_ModuleFixups ==
    /\ IF pc \in {"import_lib", "wrapper", "done"}
       THEN execBitRemoved <=> (platform # "Windows" /\ shallMakeModule)
       ELSE ~execBitRemoved
    /\ IF pc \in {"wrapper", "done"}
       THEN importLibRemoved <=>
                (platform = "Windows" /\ shallMakeModule /\ importLibExists)
       ELSE ~importLibRemoved
    /\ ~(execBitRemoved /\ importLibRemoved)
    /\ ~shallMakeModule => (~execBitRemoved /\ ~importLibRemoved)

\* C16 witness: a finished module build on Windows that removed the import
\* library.
C16_Witness ==
    pc = "done" /\ importLibRemoved /\ ~execBitRemoved /\ platform = "Windows"

\* C17: a finished run has written the wrapper script exactly when the
\* platform is Windows and the Python is treated as not installed; the
\* script is written by the last step, so with it written the run is
\* finished without a fatal error, resources, permission fix and import
\* library removal done.
C17_WrapperScriptLast ==
    /\ pc = "done" =>
          (wrapperWritten <=> (platform = "Windows" /\ uninstalledPython))
    /\ wrapperWritten =>
          /\ pc = "done" /\ fatal = "" /\ outputExists
          /\ writes # <<>> /\ writes[Len(writes)].name = 3
          /\ importLibRemoved = (shallMakeModule /\ importLibExists)
    /\ pc # "done" => ~wrapperWritten

\* C17 witness: a finished Windows build with icons and the wrapper script.
C17_Witness ==
    /\ pc = "done" /\ wrapperWritten /\ ~shallMakeModule
    /\ IconWrites # <<>> /\ template_exe = NoTemplate

\* C19: a module build on Windows writes one resource to the target, the
\* constants blob as RT_RCDATA 3, whatever template, splash screen and icon
\* specifications are configured; nothing is converted either.
C19_WindowsModuleOnlyBlob ==
    (platform = "Windows" /\ shallMakeModule) =>
        /\ converted = <<>>
        /\ IF pc \in {"start", "aborted", "blob"}
           THEN writes = <<>>
           ELSE /\ Len(writes) = 1
                /\ writes[1].kind = "RT_RCDATA"
                /\ writes[1].name = 3 /\ writes[1].lang = 0

\* C19 witness: a finished Windows module build with template, splash screen
\* and icon specifications configured.
C19_Witness ==
    /\ platform = "Windows" /\ shallMakeModule /\ pc = "done"
    /\ template_exe = MaxTemplate /\ splash /\ iconPaths # <<>>
    /\ Len(writes) = 1

\* The entry e of the group icon written for source g names the icon
\* resource that holds the image read for it: the bytes come from the file
\* of source g, as many as image_size says (fewer only where the file ends),
\* and, in a complete container, from the offset the directory gives for the
\* entry of that size.
EntryNamesItsImage(g, e) ==
    LET data == GroupWrites[g].data
        id == GroupField(data, e, "id")
        size == GroupField(data, e, "image_size")
        file == iconPaths[g].file
    IN  /\ id \in 1..Len(IconWrites)
        /\ IconWrites[id].name = id
        /\ LET image == IconWrites[id].data
           IN  /\ image[1] = g
               /\ image[3] = Min(size, Max(0, file.length - image[2]))
               /\ file \in GoodFiles =>
                     /\ image[3] = size
                     /\ \E n \in 1..file.count :
                           /\ StoredEntry(file.count, n).image_size = size
                           /\ StoredEntry(file.count, n).image_offset = image[2]

\* C18: when _addWindowsIconFromIcons returns, the icon resources written
\* are named 1..N in this order, N the number of entries in all group icons
\* written, and every entry of every group icon names the icon resource that
\* holds its own image.
C18_IdsNameTheirImages ==
    (pc = "splash" /\ template_exe = NoTemplate) =>
        /\ Len(GroupWrites) = Len(iconPaths)
        /\ Len(IconWrites) = Len(AllGroupIds)
        /\ \A k \in 1..Len(IconWrites) : IconWrites[k].name = k
        /\ \A g \in 1..Len(GroupWrites) :
              \A e \in 1..GroupEntryCount(GroupWrites[g].data) :
                  EntryNamesItsImage(g, e)

\* C18 witness: the call returned after a source without entries and a
\* source with several.
C18_Witness ==
    /\ pc = "splash" /\ Len(GroupWrites) = 2
    /\ GroupEntryCount(GroupWrites[1].data) = 0
    /\ GroupEntryCount(GroupWrites[2].data) >= 2
    /\ Len(IconWrites) >= 2

====
